---- MODULE Spec2Model ----
(***************************************************************************)
(* Model of energy_py's experience Memory (agents/memory.py) and of the    *)
(* ActorCritic agent's learn step (agents/actor_critic.py).                *)
(*                                                                         *)
(* Floating point numbers are modelled as exact rationals <<num, den>>     *)
(* with den > 0 in lowest terms; <<0, 0>> is NaN.  All values the model    *)
(* draws are small dyadic rationals, for which IEEE double arithmetic is   *)
(* exact, so the rational arithmetic is what the program computes.         *)
(***************************************************************************)
EXTENDS Integers, Sequences, FiniteSets, TLC

\* ------------------------------------------------------------------ bounds

\* most experiences stored in the memory specification
MaxExperiences == 2
\* largest memory_length a Memory is constructed with
MaxLength == 2
\* largest batch_size asked of get_random_batch
MaxBatch == 2
\* longest reward sequence handed to calculate_returns on its own
MaxRewards == 3
\* most learn invocations between two resets
MaxLearns == 2
\* most experiences stored in the episode-batch specification
MaxStored == 3
\* most experiences stored in the reporting specification
MaxSteps == 11

\* observation_space.shape[0] and action_space.shape[0]
ObsDim == 1
ActDim == 1

\* ------------------------------------------------------------ float values

NaN == <<0, 0>>
Zero == <<0, 1>>
Half == <<1, 2>>
One == <<1, 1>>
Two == <<2, 1>>

IsNaN(x) == x[2] = 0

Abs(n) == IF n < 0 THEN -n ELSE n

RECURSIVE GCD(_, _)
GCD(a, b) == IF b = 0 THEN a ELSE GCD(b, a % b)

RNorm(n, d) ==
    IF d = 0 THEN NaN
    ELSE LET g == GCD(Abs(n), d) IN <<n \div g, d \div g>>

RAdd(x, y) ==
    IF IsNaN(x) \/ IsNaN(y) THEN NaN
    ELSE RNorm(x[1] * y[2] + y[1] * x[2], x[2] * y[2])

RSub(x, y) ==
    IF IsNaN(x) \/ IsNaN(y) THEN NaN
    ELSE RNorm(x[1] * y[2] - y[1] * x[2], x[2] * y[2])

RMul(x, y) ==
    IF IsNaN(x) \/ IsNaN(y) THEN NaN
    ELSE RNorm(x[1] * y[1], x[2] * y[2])

\* x / k for a count k >= 1
RDivInt(x, k) == IF IsNaN(x) THEN NaN ELSE RNorm(x[1], x[2] * k)

\* numpy's elementwise arithmetic on arrays of one column
RECURSIVE VAdd(_, _)
VAdd(xs, ys) ==
    IF xs = <<>> THEN <<>>
    ELSE <<RAdd(Head(xs), Head(ys))>> \o VAdd(Tail(xs), Tail(ys))

RECURSIVE VSub(_, _)
VSub(xs, ys) ==
    IF xs = <<>> THEN <<>>
    ELSE <<RSub(Head(xs), Head(ys))>> \o VSub(Tail(xs), Tail(ys))

RECURSIVE VMul(_, _)
VMul(xs, ys) ==
    IF xs = <<>> THEN <<>>
    ELSE <<RMul(Head(xs), Head(ys))>> \o VMul(Tail(xs), Tail(ys))

RECURSIVE VScale(_, _)
VScale(c, xs) ==
    IF xs = <<>> THEN <<>>
    ELSE <<RMul(c, Head(xs))>> \o VScale(c, Tail(xs))

RLess(x, y) == x[1] * y[2] < y[1] * x[2]

Min(a, b) == IF a < b THEN a ELSE b

\* ------------------------------------------------------------------- state

VARIABLES
    length,        \* Memory.length (memory_length)
    discount,      \* Memory.discount / the agent's discount
    experiences,   \* Memory.experiences, a list of 7-tuples
    info,          \* Memory.info, metric name -> list
    outputs,       \* Memory.outputs
    critic,        \* the critic's parameters
    actor,         \* the actor's parameters
    calls,         \* calls made on the approximators by the last learn
    result         \* the last call on the model and what it returned

vars == <<length, discount, experiences, info, outputs, critic, actor, calls, result>>

InfoKeys == {"value fctn target", "td_error", "critic_loss", "actor_loss"}

\* collections.defaultdict(list): every key reads as the empty list
EmptyInfo == [k \in InfoKeys |-> <<>>]

EmptyOutputs == [keys |-> {}, info |-> EmptyInfo, df_stp |-> <<>>, df_ep |-> <<>>]

\* ------------------------------------------------------------------ Memory

\* the fields of an experience tuple (python index + 1)
Obs(exp) == exp[1]
Act(exp) == exp[2]
Rew(exp) == exp[3]
Episode(exp) == exp[7]

Reset ==
    /\ experiences' = <<>>
    /\ info' = EmptyInfo
    /\ outputs' = EmptyOutputs
    /\ result' = [op |-> "reset"]
    /\ UNCHANGED <<length, discount, critic, actor, calls>>

AddExperience(observation, action, reward, next_observation, terminal, step, episode) ==
    LET exp == <<observation, action, reward, next_observation, terminal, step, episode>>
    IN /\ experiences' = Append(experiences, exp)
       /\ result' = [op |-> "add_experience", args |-> exp]
       /\ UNCHANGED <<length, discount, info, outputs, critic, actor, calls>>

\* mutant: returns.append(R) in place of returns.insert(0, R)
RECURSIVE ReturnsLoopAppend(_, _, _, _)
ReturnsLoopAppend(rewards, i, R, returns) ==
    IF i = 0 THEN returns
    ELSE LET R2 == RAdd(rewards[i], RMul(discount, R))
         IN ReturnsLoopAppend(rewards, i - 1, R2, returns \o <<R2>>)

\* the loop of calculate_returns over rewards[::-1], returns.insert(0, R)
RECURSIVE ReturnsLoop(_, _, _, _)
ReturnsLoop(rewards, i, R, returns) ==
    IF i = 0 THEN returns
    ELSE LET R2 == RAdd(rewards[i], RMul(discount, R))
         IN ReturnsLoop(rewards, i - 1, R2, <<R2>> \o returns)

\* rtns.reshape(-1, 1): one row of one value per reward
calculate_returns(rewards) ==
    LET returns == ReturnsLoop(rewards, Len(rewards), Zero, <<>>)
    IN [t \in 1..Len(returns) |-> <<returns[t]>>]

CalculateReturns(rewards) ==
    /\ result' = [op |-> "calculate_returns", rewards |-> rewards,
                  returns |-> calculate_returns(rewards)]
    /\ UNCHANGED <<length, discount, experiences, info, outputs, critic, actor, calls>>

\* np.concatenate over a column of vectors
RECURSIVE Concatenate(_)
Concatenate(vectors) ==
    IF vectors = <<>> THEN <<>>
    ELSE Head(vectors) \o Concatenate(Tail(vectors))

\* flat.reshape(-1, dim) for a flat array whose size is a multiple of dim
Reshape(flat, dim) ==
    [r \in 1..(Len(flat) \div dim) |->
        [c \in 1..dim |-> flat[(r - 1) * dim + c]]]

\* mutant: only the first row is tested for NaN
AnyNaNFirstRow(rows) == \E c \in 1..Len(rows[1]) : IsNaN(rows[1][c])

\* np.any(np.isnan(array)) over a two-dimensional array
AnyNaN(rows) == \E r \in 1..Len(rows) : \E c \in 1..Len(rows[r]) : IsNaN(rows[r][c])

\* mutant: the mask compares the step column, exps[:, 5]
EpisodeExpsByStep(exps, episode_number) ==
    LET InEpisode(exp) == exp[6] = episode_number
    IN SelectSeq(exps, InEpisode)

\* exps[[exps[:, 6] == episode_number]]: the rows of the episode, in order
EpisodeExps(exps, episode_number) ==
    LET InEpisode(exp) == Episode(exp) = episode_number
    IN SelectSeq(exps, InEpisode)

get_episode_batch(episode_number) ==
    IF experiences = <<>>
    THEN [status |-> "IndexError"]        \* exps[:, 6] on an array of shape (0,)
    ELSE
    LET episode_exps == EpisodeExps(experiences, episode_number)
        n == Len(episode_exps)
    IN IF n = 0
       THEN [status |-> "ValueError"]     \* np.concatenate of no arrays
       ELSE
       LET observations == Reshape(Concatenate([i \in 1..n |-> Obs(episode_exps[i])]), ObsDim)
           actions == Reshape(Concatenate([i \in 1..n |-> Act(episode_exps[i])]), ActDim)
           rewards == [i \in 1..n |-> <<Rew(episode_exps[i])>>]
       IN IF \/ Len(observations) # Len(actions)
             \/ Len(observations) # Len(rewards)
             \/ AnyNaN(observations)
             \/ AnyNaN(actions)
             \/ AnyNaN(rewards)
          THEN [status |-> "AssertionError"]
          ELSE [status |-> "ok", observations |-> observations,
                actions |-> actions, rewards |-> rewards]

GetEpisodeBatch(episode_number) ==
    /\ result' = [op |-> "get_episode_batch", episode_number |-> episode_number,
                  ret |-> get_episode_batch(episode_number)]
    /\ UNCHANGED <<length, discount, experiences, info, outputs, critic, actor, calls>>

\* mutant: the whole list, no limit to the memory length
WindowAll(exps, len) == exps

\* self.experiences[-self.length:]; -0 is 0, so a length of 0 keeps the whole list
Window(exps, len) ==
    IF len = 0 \/ len >= Len(exps) THEN exps
    ELSE SubSeq(exps, Len(exps) - len + 1, Len(exps))

\* sample_size = min(batch_size, len(self.experiences))
SampleSize(batch_size) == Min(batch_size, Len(experiences))

\* The batch for one draw of np.random.randint(0, len(memory), sample_size).
\* With sample_size = 0 the indexed array has size 0 and reshape(0, -1) cannot
\* infer the unknown dimension: numpy raises ValueError (and np.random.randint
\* with high = 0 raises ValueError itself on an empty memory).
get_random_batch(batch_size, indicies) ==
    LET sample_size == SampleSize(batch_size)
        memory == Window(experiences, length)
    IN IF sample_size = 0
       THEN [status |-> "ValueError"]
       ELSE [status |-> "ok",
             batch |-> [i \in 1..sample_size |-> memory[indicies[i] + 1]]]

\* mutant: the memory is cut down to the window it samples from
GetRandomBatchTruncating(batch_size) ==
    /\ \E indicies \in [1..SampleSize(batch_size) ->
                           0..(Len(Window(experiences, length)) - 1)] :
          result' = [op |-> "get_random_batch", batch_size |-> batch_size,
                     ret |-> get_random_batch(batch_size, indicies)]
    /\ experiences' = Window(experiences, length)
    /\ UNCHANGED <<length, discount, info, outputs, critic, actor, calls>>

GetRandomBatch(batch_size) ==
    /\ \E indicies \in [1..SampleSize(batch_size) ->
                           0..(Len(Window(experiences, length)) - 1)] :
          result' = [op |-> "get_random_batch", batch_size |-> batch_size,
                     ret |-> get_random_batch(batch_size, indicies)]
    /\ UNCHANGED <<length, discount, experiences, info, outputs, critic, actor, calls>>

\* the distinct episode ids, ascending: the index of groupby(by=['episode'])
RECURSIVE SortedSeq(_)
SortedSeq(S) ==
    IF S = {} THEN <<>>
    ELSE LET m == CHOOSE x \in S : \A y \in S : x <= y
         IN <<m>> \o SortedSeq(S \ {m})

\* groupby(...).sum() of the reward column for one episode (NaN is skipped)
RECURSIVE SumReward(_, _)
SumReward(exps, episode) ==
    IF exps = <<>> THEN Zero
    ELSE LET rest == SumReward(Tail(exps), episode)
             exp == Head(exps)
         IN IF Episode(exp) = episode /\ ~IsNaN(Rew(exp))
            THEN RAdd(Rew(exp), rest) ELSE rest

\* reward.cummax() at row i
RECURSIVE CumMax(_, _)
CumMax(reward, i) ==
    IF i = 1 THEN reward[1]
    ELSE LET before == CumMax(reward, i - 1)
         IN IF RLess(before, reward[i]) THEN reward[i] ELSE before

RECURSIVE SumRange(_, _, _)
SumRange(reward, lo, hi) ==
    IF lo > hi THEN Zero ELSE RAdd(reward[lo], SumRange(reward, lo + 1, hi))

\* reward.rolling(window, min_periods=1).mean() at row i
RollingMean(reward, window, i) ==
    LET lo == IF i - window + 1 < 1 THEN 1 ELSE i - window + 1
    IN RDivInt(SumRange(reward, lo, i), i - lo + 1)

\* window = int(df_ep.shape[0]*0.1)
RollingWindow(episodes) == episodes \div 10

\* The episodic table: summed reward with its running maximum and rolling
\* mean.  (The rolling standard deviation uses the same window; its values
\* are irrational and are not carried.)
EpisodeTable(exps, window) ==
    LET ids == SortedSeq({Episode(exps[i]) : i \in 1..Len(exps)})
        reward == [i \in 1..Len(ids) |-> SumReward(exps, ids[i])]
    IN [i \in 1..Len(ids) |->
          [episode |-> ids[i], reward |-> reward[i],
           cum_max |-> CumMax(reward, i),
           rolling_mean |-> RollingMean(reward, window, i)]]

\* rolling(window, min_periods=1) with window < min_periods raises ValueError,
\* after outputs['info'] was set and before the tables are stored
OutputResults ==
    LET episodes == Cardinality({Episode(experiences[i]) : i \in 1..Len(experiences)})
        window == RollingWindow(episodes)
    IN /\ IF window < 1
          THEN /\ outputs' = [outputs EXCEPT !.keys = @ \cup {"info"}, !.info = info]
               /\ result' = [op |-> "output_results", status |-> "ValueError",
                             episodes |-> episodes, window |-> window]
          ELSE /\ outputs' = [keys |-> {"info", "df_stp", "df_ep"}, info |-> info,
                              df_stp |-> experiences,
                              df_ep |-> EpisodeTable(experiences, window)]
               /\ result' = [op |-> "output_results", status |-> "ok",
                             episodes |-> episodes, window |-> window]
       /\ UNCHANGED <<length, discount, experiences, info, critic, actor, calls>>

\* ------------------------------------------------------------- ActorCritic

\* The approximators are collaborators outside the repository: a linear
\* critic V(s) = w * s and an actor whose parameter counts its updates.
CriticPredict(w, observations) == VScale(w, observations)

RECURSIVE SumSeq(_)
SumSeq(xs) == IF xs = <<>> THEN Zero ELSE RAdd(Head(xs), SumSeq(Tail(xs)))

\* td_error = target - V(observations); the parameters move
CriticImprove(w, observations, target) ==
    LET td_error == VSub(target, CriticPredict(w, observations))
    IN [td_error |-> td_error,
        loss |-> SumSeq(VMul(td_error, td_error)),
        params |-> RAdd(w, One)]

ActorImprove(theta, observations, actions, advantage) ==
    [loss |-> SumSeq(VMul(actions, advantage)),
     params |-> theta + 1]

\* mutant: the Monte-Carlo return of the rewards as the target
LearnTargetMonteCarlo(rew, next_obs) ==
    Concatenate(calculate_returns(rew))

\* target = rew + self.discount * self.critic.predict(session, next_obs)
LearnTarget(rew, next_obs) ==
    VAdd(rew, VScale(discount, CriticPredict(critic, next_obs)))

\* mutant: the td_error recorded by the previous learn, when there is one
LearnAdvantageStale(td_error) ==
    LET recorded == info["td_error"]
    IN IF recorded = <<>> \/ Len(recorded[Len(recorded)]) # Len(td_error)
       THEN td_error ELSE recorded[Len(recorded)]

\* the advantage handed to self.actor.improve: the td_error of critic.improve
LearnAdvantage(td_error) == td_error

\* The calls _learn makes, in order, each with its arguments and its return.
LearnCalls(obs, actions, rew, next_obs) ==
    LET target == LearnTarget(rew, next_obs)
        improved == CriticImprove(critic, obs, target)
        advantage == LearnAdvantage(improved.td_error)
        actor_improved == ActorImprove(actor, obs, actions, advantage)
    IN << [fn |-> "critic.predict", args |-> <<next_obs>>,
           ret |-> CriticPredict(critic, next_obs)],
          [fn |-> "critic.improve", args |-> <<obs, target>>,
           ret |-> <<improved.td_error, improved.loss>>, params |-> improved.params],
          [fn |-> "actor.improve", args |-> <<obs, actions, advantage>>,
           ret |-> actor_improved.loss, params |-> actor_improved.params] >>

Learn(obs, actions, rew, next_obs) ==
    LET made == LearnCalls(obs, actions, rew, next_obs)
        critic_improve == made[2]
        actor_improve == made[3]
        target == critic_improve.args[2]
        td_error == critic_improve.ret[1]
        critic_loss == critic_improve.ret[2]
        actor_loss == actor_improve.ret
    IN /\ calls' = made
       /\ critic' = critic_improve.params
       /\ actor' = actor_improve.params
       /\ info' = [info EXCEPT !["value fctn target"] = Append(@, target),
                               !["td_error"] = Append(@, td_error),
                               !["critic_loss"] = Append(@, critic_loss),
                               !["actor_loss"] = Append(@, actor_loss)]
       /\ result' = [op |-> "learn",
                     args |-> [observations |-> obs, actions |-> actions,
                               rewards |-> rew, next_obs |-> next_obs],
                     loss |-> RAdd(critic_loss, actor_loss)]
       /\ UNCHANGED <<length, discount, experiences, outputs>>

\* ---------------------------------------------------------- specifications

Discounts == {Half}

\* Memory.__init__ followed by reset(); the approximators as constructed
Init ==
    /\ length \in 0..MaxLength
    /\ discount \in Discounts
    /\ experiences = <<>>
    /\ info = EmptyInfo
    /\ outputs = EmptyOutputs
    /\ critic = One
    /\ actor = 0
    /\ calls = <<>>
    /\ result = [op |-> "init"]

\* observation, action and reward of the experiences the environment loop
\* adds: two clean ones, and one with a NaN in each of the three fields
Samples ==
    { << <<Zero>>, <<Zero>>, One >>,
      << <<Zero>>, <<Zero>>, Two >>,
      << <<NaN>>,  <<Zero>>, One >>,
      << <<Zero>>, <<NaN>>,  One >>,
      << <<Zero>>, <<Zero>>, NaN >> }
Episodes == {0, 1}

\* the reward column of one stored episode, as the agent passes it on
EpisodeRewards(episode) ==
    LET exps == EpisodeExps(experiences, episode)
    IN [i \in 1..Len(exps) |-> Rew(exps[i])]

\* the memory with every operation, on a short list of experiences
Next ==
    \/ Reset
    \/ /\ Len(experiences) < MaxExperiences
       /\ \E s \in Samples, episode \in Episodes :
             AddExperience(s[1], s[2], s[3], <<Zero>>, FALSE, Len(experiences), episode)
    \/ \E episode \in Episodes : CalculateReturns(EpisodeRewards(episode))
    \/ \E episode \in Episodes : GetEpisodeBatch(episode)
    \/ \E batch_size \in 0..MaxBatch : GetRandomBatch(batch_size)
    \/ OutputResults

Spec == Init /\ [][Next]_vars

\* episode batches and their returns, on a longer list of experiences
InitEpisode == Init /\ length = MaxLength

NextEpisode ==
    \/ Reset
    \/ /\ Len(experiences) < MaxStored
       /\ \E s \in Samples, episode \in Episodes :
             AddExperience(s[1], s[2], s[3], <<Zero>>, FALSE, Len(experiences), episode)
    \/ \E episode \in Episodes : GetEpisodeBatch(episode)
    \/ \E episode \in Episodes : CalculateReturns(EpisodeRewards(episode))

SpecEpisode == InitEpisode /\ [][NextEpisode]_vars

\* calculate_returns on every short reward sequence, for several discounts
ReturnDiscounts == {Zero, Half, One, Two}
RewardValues == {Zero, One, Two}
RewardSeqs == UNION {[1..n -> RewardValues] : n \in 0..MaxRewards}

InitReturns ==
    /\ length = MaxLength
    /\ discount \in ReturnDiscounts
    /\ experiences = <<>>
    /\ info = EmptyInfo
    /\ outputs = EmptyOutputs
    /\ critic = One
    /\ actor = 0
    /\ calls = <<>>
    /\ result = [op |-> "init"]

NextReturns == \E rewards \in RewardSeqs : CalculateReturns(rewards)

SpecReturns == InitReturns /\ [][NextReturns]_vars

\* the agent's learn step on batches of one or two samples
LearnDiscounts == {Zero, Half, One}
SampleCounts == {1, 2}

InitLearn ==
    /\ length = MaxLength
    /\ discount \in LearnDiscounts
    /\ experiences = <<>>
    /\ info = EmptyInfo
    /\ outputs = EmptyOutputs
    /\ critic = One
    /\ actor = 0
    /\ calls = <<>>
    /\ result = [op |-> "init"]

NextLearn ==
    \/ /\ actor < MaxLearns
       /\ \E n \in SampleCounts :
            \E obs \in [1..n -> {Zero, One}], actions \in [1..n -> {One}],
               rew \in [1..n -> {One}], next_obs \in [1..n -> {Zero, One}] :
                 Learn(obs, actions, rew, next_obs)
    \/ Reset

SpecLearn == InitLearn /\ [][NextLearn]_vars

\* the reporting tables over a run of episodes numbered in order
LastEpisode ==
    IF experiences = <<>> THEN 0 ELSE Episode(experiences[Len(experiences)])

NextOutput ==
    \/ /\ Len(experiences) < MaxSteps
       /\ \E episode \in {LastEpisode, LastEpisode + 1} :
             AddExperience(<<Zero>>, <<Zero>>, One, <<Zero>>, FALSE,
                           Len(experiences), episode)
    \/ OutputResults

SpecOutput == InitEpisode /\ [][NextOutput]_vars

\* ------------------------------------------------------------------ claims

\* C1: get_random_batch(B) returns exactly min(B, window_size) rows, where
\* window_size = min(n, L) is the size of the most-recent-L window over the n
\* stored experiences (stated where a batch is returned and L >= 1).
C1_BatchRowsAreMinOfBatchAndWindow ==
    (/\ result.op = "get_random_batch"
     /\ length >= 1
     /\ result.ret.status = "ok")
    => Len(result.ret.batch)
         = Min(result.batch_size, Min(Len(experiences), length))

\* C2: with max_length L >= 1 and more than L stored experiences, every row
\* get_random_batch returns is one of the L most recently added experiences.
C2_BatchFromRecentWindow ==
    (/\ result.op = "get_random_batch"
     /\ length >= 1
     /\ Len(experiences) > length
     /\ result.ret.status = "ok")
    => \A i \in 1..Len(result.ret.batch) :
          \E j \in (Len(experiences) - length + 1)..Len(experiences) :
             result.ret.batch[i] = experiences[j]

\* witness of C2: a batch drawn while an experience older than the window,
\* different from every experience in the window, is still stored
C2_Witness ==
    /\ result.op = "get_random_batch"
    /\ length >= 1
    /\ Len(experiences) > length
    /\ result.ret.status = "ok"
    /\ Len(result.ret.batch) >= 1
    /\ \A j \in (Len(experiences) - length + 1)..Len(experiences) :
          experiences[1] # experiences[j]

\* C3: learn calls critic.predict(next_observations), then critic.improve
\* (observations, target), then actor.improve exactly once, and the advantage
\* given to actor.improve is the td_error that critic.improve call returned,
\* with the observations and actions learn received.
C3_CriticBeforeActor ==
    result.op = "learn" =>
        /\ Len(calls) = 3
        /\ calls[1].fn = "critic.predict"
        /\ calls[1].args = <<result.args.next_obs>>
        /\ calls[2].fn = "critic.improve"
        /\ calls[2].args[1] = result.args.observations
        /\ calls[3].fn = "actor.improve"
        /\ calls[3].args = <<result.args.observations, result.args.actions,
                             calls[2].ret[1]>>
        /\ Cardinality({k \in 1..Len(calls) : calls[k].fn = "actor.improve"}) = 1

\* witness of C3: a second learn whose td_error differs from the one the
\* first learn recorded, handed to the actor
C3_Witness ==
    /\ result.op = "learn"
    /\ Len(info["td_error"]) >= 2
    /\ info["td_error"][Len(info["td_error"])] # info["td_error"][Len(info["td_error"]) - 1]
    /\ Len(info["td_error"][Len(info["td_error"])])
         = Len(info["td_error"][Len(info["td_error"]) - 1])
    /\ calls[3].args[3] = info["td_error"][Len(info["td_error"])]

\* C4: on a memory holding no experiences, get_random_batch(B) returns a
\* batch of zero rows and does not fail.
C4_EmptyMemoryGivesEmptyBatch ==
    (result.op = "get_random_batch" /\ experiences = <<>>)
    => (result.ret.status = "ok" /\ Len(result.ret.batch) = 0)

\* sum over k >= t of discount^(k-t) * r[k]
RECURSIVE DiscountedSum(_, _, _)
DiscountedSum(r, k, weight) ==
    IF k > Len(r) THEN Zero
    ELSE RAdd(RMul(weight, r[k]), DiscountedSum(r, k + 1, RMul(weight, discount)))

\* C5: calculate_returns(r) yields exactly len(r) values with
\* returns[n-1] = r[n-1] and returns[t] = r[t] + g * returns[t+1], that is
\* the discounted sum of the rewards from t on; [1,1,1] with g = 0.5 gives
\* [1.75, 1.5, 1.0].
C5_ReturnsRecurrence ==
    result.op = "calculate_returns" =>
        LET r == result.rewards
            returns == result.returns
            n == Len(r)
        IN /\ Len(returns) = n
           /\ \A t \in 1..n : Len(returns[t]) = 1
           /\ n >= 1 => returns[n][1] = r[n]
           /\ \A t \in 1..(n - 1) :
                 returns[t][1] = RAdd(r[t], RMul(discount, returns[t + 1][1]))
           /\ \A t \in 1..n : returns[t][1] = DiscountedSum(r, t, One)
           /\ (r = <<One, One, One>> /\ discount = Half)
                 => returns = << <<<<7, 4>>>>, <<<<3, 2>>>>, <<One>> >>

\* witness of C5: the returns of [1, 1, 1] under a discount of 0.5
C5_Witness ==
    /\ result.op = "calculate_returns"
    /\ result.rewards = <<One, One, One>>
    /\ discount = Half
    /\ result.returns = << <<<<7, 4>>>>, <<<<3, 2>>>>, <<One>> >>

\* the positions of the stored experiences of an episode
EpisodeIndices(e) == {i \in 1..Len(experiences) : experiences[i][7] = e}

\* a NaN in the observation, action or reward of a stored experience
ExpHasNaN(exp) ==
    \/ \E c \in 1..Len(exp[1]) : exp[1][c][2] = 0
    \/ \E c \in 1..Len(exp[2]) : exp[2][c][2] = 0
    \/ exp[3][2] = 0

\* C6: for an episode id e present in the stored experiences,
\* get_episode_batch(e) returns the observation, action and reward of exactly
\* the experiences of episode e, in insertion order, in three arrays with as
\* many rows as episode e has stored experiences.
C6_EpisodeBatchIsEpisodeRows ==
    (result.op = "get_episode_batch" /\ EpisodeIndices(result.episode_number) # {})
    => LET idx == EpisodeIndices(result.episode_number)
           ret == result.ret
       IN /\ (\A i \in idx : ~ExpHasNaN(experiences[i])) => ret.status = "ok"
          /\ ret.status = "ok" =>
               /\ Len(ret.observations) = Cardinality(idx)
               /\ Len(ret.actions) = Cardinality(idx)
               /\ Len(ret.rewards) = Cardinality(idx)
               /\ \A j \in idx :
                     LET row == Cardinality({i \in idx : i <= j})
                     IN /\ ret.observations[row] = experiences[j][1]
                        /\ ret.actions[row] = experiences[j][2]
                        /\ ret.rewards[row] = <<experiences[j][3]>>

\* witness of C6: a batch of two rows with different rewards, taken from
\* between and before experiences of the other episode
C6_Witness ==
    /\ result.op = "get_episode_batch"
    /\ result.ret.status = "ok"
    /\ Len(experiences) = 3
    /\ experiences[1][7] = result.episode_number
    /\ experiences[2][7] # result.episode_number
    /\ experiences[3][7] = result.episode_number
    /\ result.ret.rewards = << <<experiences[1][3]>>, <<experiences[3][3]>> >>
    /\ experiences[1][3] # experiences[3][3]

\* C7: when an experience of the requested episode has a NaN in its
\* observation, action or reward, get_episode_batch fails with an assertion
\* error and leaves the stored experiences unchanged; a batch it returns has
\* no NaN.
C7_NaNFailsAssertion ==
    [][result'.op = "get_episode_batch" =>
        /\ (\E i \in EpisodeIndices(result'.episode_number) : ExpHasNaN(experiences[i]))
              => /\ result'.ret.status = "AssertionError"
                 /\ experiences' = experiences
        /\ result'.ret.status = "ok" =>
              \A r \in 1..Len(result'.ret.observations) :
                 /\ \A c \in 1..Len(result'.ret.observations[r]) :
                       result'.ret.observations[r][c][2] # 0
                 /\ \A c \in 1..Len(result'.ret.actions[r]) :
                       result'.ret.actions[r][c][2] # 0
                 /\ result'.ret.rewards[r][1][2] # 0]_vars

\* witness of C7: the assertion failed on an episode whose second stored
\* experience, not its first, holds the NaN
C7_Witness ==
    /\ result.op = "get_episode_batch"
    /\ result.ret.status = "AssertionError"
    /\ Len(experiences) >= 2
    /\ experiences[1][7] = result.episode_number
    /\ experiences[2][7] = result.episode_number
    /\ ~ExpHasNaN(experiences[1])
    /\ ExpHasNaN(experiences[2])

\* C8: the rolling window of output_results is max(1, floor(n / 10)) for
\* every number n >= 1 of episodes, so it is never 0.
C8_WindowAtLeastOne ==
    (result.op = "output_results" /\ result.episodes >= 1)
    => result.window = (IF result.episodes \div 10 < 1 THEN 1
                        ELSE result.episodes \div 10)

\* C9: the target learn hands to critic.improve is
\* reward + discount * critic.predict(next_observations), predicted with the
\* critic's parameters as they are before this learn's critic.improve, and
\* that target is appended once to the info diagnostics.
C9_BootstrappedTarget ==
    [][result'.op = "learn" =>
        LET target == VAdd(result'.args.rewards,
                           VScale(discount,
                                  CriticPredict(critic, result'.args.next_obs)))
        IN /\ calls'[2].fn = "critic.improve"
           /\ calls'[2].args[2] = target
           /\ info'["value fctn target"] = Append(info["value fctn target"], target)]_vars

\* witness of C9: a learn after the critic's parameters have moved, whose
\* target differs from the rewards and from their Monte-Carlo return
C9_Witness ==
    /\ result.op = "learn"
    /\ critic # RAdd(One, One)
    /\ Len(info["value fctn target"]) >= 2
    /\ calls[2].args[2] # result.args.rewards
    /\ calls[2].args[2] # Concatenate(calculate_returns(result.args.rewards))
    /\ info["value fctn target"][Len(info["value fctn target"])] = calls[2].args[2]

\* C10: add_experience appends exactly the tuple it is given and leaves the
\* earlier ones unchanged, reset empties the sequence, and calculate_returns,
\* get_episode_batch, get_random_batch and output_results leave it as it is,
\* also when more than max_length experiences are stored.
C10_ExperiencesAreWhatWasAdded ==
    [][/\ result'.op = "reset" => experiences' = <<>>
       /\ result'.op = "add_experience" =>
             /\ Len(experiences') = Len(experiences) + 1
             /\ experiences'[Len(experiences')] = result'.args
             /\ \A i \in 1..Len(experiences) : experiences'[i] = experiences[i]
       /\ result'.op \in {"calculate_returns", "get_episode_batch",
                          "get_random_batch", "output_results"}
             => experiences' = experiences]_vars

\* witness of C10: a batch was drawn with more than max_length experiences
\* stored
C10_Witness ==
    /\ result.op = "get_random_batch"
    /\ result.ret.status = "ok"
    /\ length >= 1
    /\ Len(experiences) > length

====
